---- MODULE Spec2Model ----
(***************************************************************************)
(* State-machine model of face_detection_email_notification.py:            *)
(* movement_detected (the Motion Gate), the top-level time guard,          *)
(* continuous_face_detection (the Face Capture Loop) and send_email (the   *)
(* Notifier), together with the environment they run against: the wall     *)
(* clock, the camera, the operator's keyboard, the file system and the     *)
(* mail relay.  The script is single-threaded; each action is one step of  *)
(* it between two observations of the environment, and pc is the position  *)
(* of the interpreter.                                                     *)
(***************************************************************************)
EXTENDS Integers, Sequences, FiniteSets

\* ------------------------------------------------------------------ bounds
\* Clock instants per second: datetime.now() is finer than the one-second
\* resolution of the strftime patterns the script uses.
TicksPerSecond == 2
\* Midnights the clock may pass during a run.
MaxDay == 1
\* Boxes detectMultiScale may report on one frame.
MaxFaces == 2
\* Boxes reported over a whole run.
MaxCaptures == 2

\* ------------------------------------------------------- program constants
BinarizationThreshold == 25
MotionThreshold == 5000
KernelSize == 21

\* ------------------------------------------------------------------ frames
\* A frame is described by the BGR colour it shows on each pixel region; a
\* region is a set of pixels on which the camera image, and so its smoothed
\* grayscale form, is uniform.  RegionSize gives the pixel count of each
\* region that can change; the rest of the 640x480 grid is static background.
RegionSize == <<5000, 1>>
Regions == DOMAIN RegionSize
\* <<B, G, R>> triples with grayscale values 0, 25 and 26.
Palette == {<<0, 0, 0>>, <<25, 25, 25>>, <<228, 0, 0>>}
Frames == [Regions -> Palette]

\* cv.cvtColor(frame, cv.COLOR_BGR2GRAY) on 8-bit pixels: OpenCV's fixed-point
\* luma, (B*1868 + G*9617 + R*4899 + 2^13) >> 14.
cvtColor(f) ==
    [r \in DOMAIN f |-> (f[r][1] * 1868 + f[r][2] * 9617 + f[r][3] * 4899 + 8192) \div 16384]

\* cv.GaussianBlur(gray, (21, 21), 0): a normalised 21x21 kernel; on a region
\* of uniform value v the weighted mean of the neighbourhood, rounded.
GaussianBlur(g) ==
    [r \in DOMAIN g |->
        (g[r] * KernelSize * KernelSize + (KernelSize * KernelSize) \div 2)
            \div (KernelSize * KernelSize)]

\* The processing both reads of movement_detected apply to a camera frame.
Preprocess(f) == GaussianBlur(cvtColor(f))

Abs(x) == IF x < 0 THEN -x ELSE x

\* cv.absdiff(start_frame_blur, blur)
absdiff(a, b) == [r \in DOMAIN a |-> Abs(a[r] - b[r])]

\* cv.threshold(diff, 25, 255, cv.THRESH_BINARY): 255 where diff > 25, else 0.
threshold(d) == [r \in DOMAIN d |-> IF d[r] > BinarizationThreshold THEN 255 ELSE 0]

RECURSIVE SumSizes(_)
SumSizes(S) ==
    IF S = {} THEN 0
    ELSE LET r == CHOOSE x \in S : TRUE IN RegionSize[r] + SumSizes(S \ {r})

\* cv.countNonZero(thresh)
countNonZero(t) == SumSizes({r \in DOMAIN t : t[r] # 0})

\* Line 35 with >= in place of >.
MotionSignalled_mut(ref, b) == countNonZero(threshold(absdiff(ref, b))) >= MotionThreshold
\* Line 35: the motion test of one iteration.
MotionSignalled(ref, b) == countNonZero(threshold(absdiff(ref, b))) > MotionThreshold

\* Line 40 left out: the reference stays the fixed baseline.
RollReference_mut(ref, b) == ref
\* Line 40: the reference used by the next iteration.
RollReference(ref, b) == b

\* ------------------------------------------------------------------- clock
\* Seconds of the day the clock is observed at: midnight, the seconds around
\* both ends of the detection window, and the last second of the day.
ClockSeconds == {0, 32399, 32400, 33300, 33301, 86399}
Instants == {s * TicksPerSecond + k : s \in ClockSeconds, k \in 0 .. TicksPerSecond - 1}
LastInstant == CHOOSE t \in Instants : \A u \in Instants : u <= t
NextInstant(t) ==
    CHOOSE u \in Instants : u > t /\ \A v \in Instants : v > t => u <= v
SecondOf(t) == t \div TicksPerSecond

\* Strings are sequences of character codes, so that Python's comparison of
\* str values (lexicographic, by code point) is computed and not assumed.
Digit(n) == 48 + n
TwoDigits(n) == <<Digit(n \div 10), Digit(n % 10)>>
Colon == 58

\* datetime.now().strftime("%H:%M:%S")
strftime_HMS(t) ==
    LET s == SecondOf(t) IN
    TwoDigits(s \div 3600) \o <<Colon>> \o TwoDigits((s \div 60) % 60) \o <<Colon>>
        \o TwoDigits(s % 60)

\* datetime.now().strftime('%Y%m%d_%H%M%S'); day d of the run is the d-th day
\* after 2024-01-01.
strftime_stamp(d, t) ==
    LET s == SecondOf(t) IN
    <<Digit(2), Digit(0), Digit(2), Digit(4), Digit(0), Digit(1)>> \o TwoDigits(1 + d)
        \o <<95>> \o TwoDigits(s \div 3600) \o TwoDigits((s \div 60) % 60) \o TwoDigits(s % 60)

\* Python's a < b on str.
RECURSIVE StrLess(_, _)
StrLess(a, b) ==
    IF b = <<>> THEN FALSE
    ELSE IF a = <<>> THEN TRUE
    ELSE IF Head(a) # Head(b) THEN Head(a) < Head(b)
    ELSE StrLess(Tail(a), Tail(b))

\* The literals "09:00:00" and "09:15:00".
WindowStart == <<48, 57, 58, 48, 48, 58, 48, 48>>
WindowEnd == <<48, 57, 58, 49, 53, 58, 48, 48>>

\* Line 133, second conjunct: strftime(...) >= "09:00:00"
GuardLower(ct) == ~StrLess(ct, WindowStart)
\* Line 133, third conjunct: strftime(...) <= "09:15:00"
GuardUpper(ct) == ~StrLess(WindowEnd, ct)
\* Line 62: current_time < "09:00:00" or current_time > "09:15:00"
OutsideWindow(ct) == StrLess(ct, WindowStart) \/ StrLess(WindowEnd, ct)

\* Line 80: f"face_capture_{timestamp}.jpg"
ImageFilename(stamp) == [stem |-> stamp, ext |-> "jpg"]
NoFile == [stem |-> <<>>, ext |-> ""]

\* mimetypes.guess_type(image_path)[0], by the extension of the path.
guess_type(path) == IF path.ext = "jpg" THEN "image/jpeg" ELSE "None"

\* The comparison of line 44 / line 90 against a key that is never pressed.
QuitKey_mut(key) == key = "Q"
\* Line 44 / line 90: cv.waitKey(1) == ord("q")
QuitKey(key) == key = "q"

\* ------------------------------------------------------------------- state
VARIABLES
    pc,               \* position of the interpreter in the script
    day, clock,       \* wall clock: day of the run, instant within the day
    source,           \* "live" camera or "recorded" frame sequence
    feed,             \* recorded frames not yet delivered to cap.read()
    camera_holders,   \* functions whose VideoCapture holds the camera device
    window_open,      \* a HighGUI window exists (cv.imshow was called)
    key_pending,      \* key the operator pressed, not yet seen by cv.waitKey
    start_frame,      \* movement_detected: the initial frame (line 17)
    start_frame_blur, \* movement_detected: the reference frame
    frame, blur,      \* movement_detected: the frame of this iteration
    prev_frame,       \* the frame movement_detected processed before `frame`
    md_result,        \* return value of movement_detected
    md_runs,          \* calls of movement_detected so far
    cfd_started,      \* continuous_face_detection was called
    n_faces, box_i,   \* boxes reported on this frame / boxes already handled
    image_filename,   \* continuous_face_detection: line 80
    iter_saved, iter_calls, \* cv.imwrite / send_email calls of this iteration
    image_path,       \* send_email: its argument
    env,              \* the process environment send_email reads
    attached,         \* send_email: the message carries the image
    fail_point,       \* where send_email raised
    crash_site,       \* function an unhandled exception was raised in
    captures,         \* capture events so far: the path, whether imwrite wrote it
    n_calls,          \* Notifier invocations so far
    disk              \* image files that exist

clockVars == <<day, clock>>
guiVars == <<window_open, key_pending>>
mdVars == <<start_frame, start_frame_blur, frame, blur, prev_frame, md_result, md_runs>>
cfdVars == <<n_faces, box_i, image_filename, iter_saved, iter_calls>>
seVars == <<image_path, env, attached, fail_point>>
histVars == <<captures, n_calls, disk>>
vars == <<pc, clockVars, source, feed, camera_holders, guiVars, mdVars, cfd_started,
          cfdVars, seVars, histVars, crash_site>>

NoFrame == <<>>

Min(a, b) == IF a < b THEN a ELSE b

InitCommon ==
    /\ pc = "md_open"
    /\ day = 0
    /\ camera_holders = {}
    /\ window_open = FALSE /\ key_pending = "none"
    /\ start_frame = NoFrame /\ start_frame_blur = NoFrame
    /\ frame = NoFrame /\ blur = NoFrame
    /\ prev_frame = NoFrame
    /\ md_result = "none" /\ md_runs = 0
    /\ cfd_started = FALSE
    /\ n_faces = 0 /\ box_i = 0 /\ image_filename = NoFile
    /\ iter_saved = 0 /\ iter_calls = 0
    /\ image_path = NoFile /\ env = "unread" /\ attached = FALSE /\ fail_point = "none"
    /\ crash_site = "none"
    /\ captures = <<>> /\ n_calls = 0 /\ disk = {}

\* The script started at any time of day against the live camera.
Init ==
    /\ InitCommon
    /\ source = "live" /\ feed = <<>>
    /\ clock \in Instants

\* ------------------------------------------------------------- environment
Running == pc \notin {"done", "crashed"}

\* Time passes within the day.
Tick ==
    /\ Running /\ clock # LastInstant
    /\ clock' = NextInstant(clock)
    /\ UNCHANGED <<pc, day, source, feed, camera_holders, guiVars, mdVars, cfd_started,
                   cfdVars, seVars, histVars, crash_site>>

\* Time passes midnight: the time of day starts again at 00:00:00.
Midnight ==
    /\ Running /\ clock = LastInstant /\ day < MaxDay
    /\ clock' = 0 /\ day' = day + 1
    /\ UNCHANGED <<pc, source, feed, camera_holders, guiVars, mdVars, cfd_started,
                   cfdVars, seVars, histVars, crash_site>>

\* The operator presses "q" in a HighGUI window; the key waits for the next
\* cv.waitKey.  Any other key is to the script the same as no key.
PressKey ==
    /\ Running /\ window_open /\ key_pending = "none"
    /\ key_pending' = "q"
    /\ UNCHANGED <<pc, clockVars, source, feed, camera_holders, window_open, mdVars,
                   cfd_started, cfdVars, seVars, histVars, crash_site>>

\* What cv.VideoCapture(0) can do: open the device or fail to.
OpenOutcomes == IF source = "live" THEN BOOLEAN ELSE {TRUE}

\* Frames cap.read() can deliver when it succeeds; past the recorded frames a
\* recorded source goes on with frames the recording leaves open.
ReadableFrames == IF source = "recorded" /\ feed # <<>> THEN {Head(feed)} ELSE Frames
\* cap.read() can return (False, None): always on a capture that did not
\* open, at any time on a live camera.
ReadCanFail == camera_holders = {} \/ source = "live"
ReadCanSucceed == camera_holders # {}

\* ------------------------------------------------------- movement_detected
\* Lines 12-14.
MD_Open ==
    /\ pc = "md_open"
    /\ \E ok \in OpenOutcomes :
        camera_holders' = IF ok THEN camera_holders \cup {"movement_detected"}
                          ELSE camera_holders
    /\ md_runs' = md_runs + 1
    /\ pc' = "md_init"
    /\ UNCHANGED <<clockVars, source, feed, guiVars, start_frame, start_frame_blur,
                   frame, blur, prev_frame, md_result, cfd_started, cfdVars, seVars, histVars,
                   crash_site>>

\* Lines 17-20.
MD_ReadInitial ==
    /\ pc = "md_init" /\ ReadCanSucceed
    /\ \E f \in ReadableFrames :
        /\ start_frame' = f
        /\ frame' = f
        /\ start_frame_blur' = Preprocess(f)
    /\ feed' = IF feed = <<>> THEN feed ELSE Tail(feed)
    /\ pc' = "md_read"
    /\ UNCHANGED <<clockVars, source, camera_holders, guiVars, blur, prev_frame,
                   md_result, md_runs, cfd_started, cfdVars, seVars, histVars,
                   crash_site>>

\* Lines 17-18 when cap.read() returns None: imutils.resize raises, nothing
\* catches it, and line 47 is not reached.
MD_ReadInitialFails ==
    /\ pc = "md_init" /\ ReadCanFail
    /\ pc' = "crashed" /\ crash_site' = "movement_detected"
    /\ UNCHANGED <<clockVars, source, feed, camera_holders, guiVars, mdVars, cfd_started,
                   cfdVars, seVars, histVars>>

\* Lines 25-28.
MD_ReadFrame ==
    /\ pc = "md_read" /\ ReadCanSucceed
    /\ \E f \in ReadableFrames :
        /\ frame' = f
        /\ blur' = Preprocess(f)
    /\ prev_frame' = frame
    /\ feed' = IF feed = <<>> THEN feed ELSE Tail(feed)
    /\ pc' = "md_diff"
    /\ UNCHANGED <<clockVars, source, camera_holders, guiVars, start_frame,
                   start_frame_blur, md_result, md_runs, cfd_started, cfdVars, seVars, histVars,
                   crash_site>>

\* Lines 25-26 when cap.read() returns None.
MD_ReadFrameFails ==
    /\ pc = "md_read" /\ ReadCanFail
    /\ pc' = "crashed" /\ crash_site' = "movement_detected"
    /\ UNCHANGED <<clockVars, source, feed, camera_holders, guiVars, mdVars, cfd_started,
                   cfdVars, seVars, histVars>>

\* Lines 31-35 and 40-41: the motion test; without motion roll the reference
\* and show the frame.
MD_Diff ==
    /\ pc = "md_diff"
    /\ IF MotionSignalled(start_frame_blur, blur)
       THEN /\ pc' = "md_motion"
            /\ UNCHANGED <<start_frame_blur, window_open>>
       ELSE /\ start_frame_blur' = RollReference(start_frame_blur, blur)
            /\ window_open' = TRUE
            /\ pc' = "md_waitkey"
    /\ UNCHANGED <<clockVars, source, feed, camera_holders, key_pending, start_frame,
                   frame, blur, prev_frame, md_result, md_runs, cfd_started, cfdVars, seVars,
                   histVars, crash_site>>

\* Lines 36-38: release the camera, destroy the windows and return True to
\* line 133; the locals are gone.  Whether a key still queued for a destroyed
\* window is dropped or reaches a later cv.waitKey depends on the HighGUI
\* backend.
MD_ReturnTrue ==
    /\ pc = "md_motion"
    /\ camera_holders' = camera_holders \ {"movement_detected"}
    /\ window_open' = FALSE
    /\ \E dropped \in BOOLEAN : key_pending' = IF dropped THEN "none" ELSE key_pending
    /\ md_result' = "True"
    /\ start_frame' = NoFrame /\ start_frame_blur' = NoFrame
    /\ frame' = NoFrame /\ blur' = NoFrame
    /\ prev_frame' = NoFrame
    /\ pc' = "guard_lower"
    /\ UNCHANGED <<clockVars, source, feed, md_runs, cfd_started, cfdVars, seVars,
                   histVars, crash_site>>

\* Lines 44-45: cv.waitKey takes the pending key; "q" leaves the loop.
MD_WaitKey ==
    /\ pc = "md_waitkey"
    /\ pc' = IF QuitKey(key_pending) THEN "md_break" ELSE "md_read"
    /\ key_pending' = "none"
    /\ UNCHANGED <<clockVars, source, feed, camera_holders, window_open, mdVars,
                   cfd_started, cfdVars, seVars, histVars, crash_site>>

\* Lines 47-49: release the camera, destroy the windows and return False,
\* which ends the script at line 133 (`and` does not evaluate the rest).
MD_ReturnFalse ==
    /\ pc = "md_break"
    /\ camera_holders' = camera_holders \ {"movement_detected"}
    /\ window_open' = FALSE /\ key_pending' = "none"
    /\ md_result' = "False"
    /\ start_frame' = NoFrame /\ start_frame_blur' = NoFrame
    /\ frame' = NoFrame /\ blur' = NoFrame
    /\ prev_frame' = NoFrame
    /\ pc' = "done"
    /\ UNCHANGED <<clockVars, source, feed, md_runs, cfd_started, cfdVars, seVars,
                   histVars, crash_site>>

\* ------------------------------------------------------- line 133, the guard
\* movement_detected() returned True; `and` evaluates the second conjunct
\* with its own datetime.now().
Guard_Lower ==
    /\ pc = "guard_lower"
    /\ pc' = IF GuardLower(strftime_HMS(clock)) THEN "guard_upper" ELSE "done"
    /\ UNCHANGED <<clockVars, source, feed, camera_holders, guiVars, mdVars, cfd_started,
                   cfdVars, seVars, histVars, crash_site>>

\* The third conjunct, with another datetime.now(); when it holds line 134
\* calls continuous_face_detection.
Guard_Upper ==
    /\ pc = "guard_upper"
    /\ IF GuardUpper(strftime_HMS(clock))
       THEN pc' = "cfd_open" /\ cfd_started' = TRUE
       ELSE pc' = "done" /\ UNCHANGED cfd_started
    /\ UNCHANGED <<clockVars, source, feed, camera_holders, guiVars, mdVars, cfdVars,
                   seVars, histVars, crash_site>>

\* ------------------------------------------------ continuous_face_detection
\* Lines 54-57.
CFD_Open ==
    /\ pc = "cfd_open"
    /\ \E ok \in OpenOutcomes :
        camera_holders' = IF ok THEN camera_holders \cup {"continuous_face_detection"}
                          ELSE camera_holders
    /\ pc' = "cfd_check"
    /\ UNCHANGED <<clockVars, source, feed, guiVars, mdVars, cfd_started, cfdVars,
                   seVars, histVars, crash_site>>

\* Lines 59-64: the window check that opens an iteration.
CFD_CheckWindow ==
    /\ pc = "cfd_check"
    /\ LET current_time == strftime_HMS(clock) IN
        pc' = IF OutsideWindow(current_time) THEN "cfd_release" ELSE "cfd_read"
    /\ n_faces' = 0 /\ box_i' = 0 /\ iter_saved' = 0 /\ iter_calls' = 0
    /\ UNCHANGED <<clockVars, source, feed, camera_holders, guiVars, mdVars, cfd_started,
                   image_filename, seVars, histVars, crash_site>>

\* Lines 67-72: read a frame and run the detector, which reports any number
\* of boxes on it.
CFD_ReadDetect ==
    /\ pc = "cfd_read" /\ ReadCanSucceed
    /\ \E n \in 0 .. Min(MaxFaces, MaxCaptures - Len(captures)) : n_faces' = n
    /\ pc' = "cfd_for"
    /\ UNCHANGED <<clockVars, source, feed, camera_holders, guiVars, mdVars, cfd_started,
                   box_i, image_filename, iter_saved, iter_calls, seVars, histVars,
                   crash_site>>

\* Lines 67-68 when cap.read() returns None: imutils.resize raises, nothing
\* catches it, and line 93 is not reached.
CFD_ReadFails ==
    /\ pc = "cfd_read" /\ ReadCanFail
    /\ pc' = "crashed" /\ crash_site' = "continuous_face_detection"
    /\ UNCHANGED <<clockVars, source, feed, camera_holders, guiVars, mdVars, cfd_started,
                   cfdVars, seVars, histVars>>

\* Lines 75-80 for the next box: draw it, read the clock, name the file.
\* Line 87 when no box is left: show the frame.
CFD_NextBox ==
    /\ pc = "cfd_for"
    /\ IF box_i < n_faces
       THEN /\ image_filename' = ImageFilename(strftime_stamp(day, clock))
            /\ pc' = "cfd_imwrite"
            /\ UNCHANGED window_open
       ELSE /\ window_open' = TRUE
            /\ pc' = "cfd_waitkey"
            /\ UNCHANGED image_filename
    /\ UNCHANGED <<clockVars, source, feed, camera_holders, key_pending, mdVars,
                   cfd_started, n_faces, box_i, iter_saved, iter_calls, seVars,
                   histVars, crash_site>>

\* Lines 81-82: cv.imwrite creates the file, or replaces the one of that
\* name, or writes nothing and returns False; its result is not looked at.
CFD_Imwrite ==
    /\ pc = "cfd_imwrite"
    /\ \E write_failed \in BOOLEAN :
        /\ disk' = IF write_failed THEN disk ELSE disk \cup {image_filename}
        /\ captures' = Append(captures, [path |-> image_filename,
                                         saved |-> ~write_failed])
    /\ iter_saved' = iter_saved + 1
    /\ pc' = "cfd_call"
    /\ UNCHANGED <<clockVars, source, feed, camera_holders, guiVars, mdVars, cfd_started,
                   n_faces, box_i, image_filename, iter_calls, seVars, n_calls,
                   crash_site>>

\* Line 85: the Notifier is invoked.
CFD_CallNotifier ==
    /\ pc = "cfd_call"
    /\ image_path' = image_filename
    /\ n_calls' = n_calls + 1
    /\ iter_calls' = iter_calls + 1
    /\ pc' = "se_build"
    /\ UNCHANGED <<clockVars, source, feed, camera_holders, guiVars, mdVars, cfd_started,
                   n_faces, box_i, image_filename, iter_saved, env, attached,
                   fail_point, captures, disk, crash_site>>

\* Lines 89-91: cv.waitKey takes the pending key; "q" leaves the loop.
CFD_WaitKey ==
    /\ pc = "cfd_waitkey"
    /\ pc' = IF QuitKey(key_pending) THEN "cfd_release" ELSE "cfd_check"
    /\ key_pending' = "none"
    /\ UNCHANGED <<clockVars, source, feed, camera_holders, window_open, mdVars,
                   cfd_started, cfdVars, seVars, histVars, crash_site>>

\* Lines 93-94, and the end of the script.
CFD_Release ==
    /\ pc = "cfd_release"
    /\ camera_holders' = camera_holders \ {"continuous_face_detection"}
    /\ window_open' = FALSE /\ key_pending' = "none"
    /\ pc' = "done"
    /\ UNCHANGED <<clockVars, source, feed, mdVars, cfd_started, cfdVars, seVars,
                   histVars, crash_site>>

\* -------------------------------------------------------------- send_email
\* What os.getenv finds: the three variables set to usable values, not set
\* (None), or set to a value no header accepts (it holds a line break).  The
\* environment does not change once the process has read it.
Environments == IF env = "unread" THEN {"valid", "unset", "malformed"} ELSE {env}

\* Lines 99-112, outside any try: a header value with a line break makes
\* EmailMessage raise ValueError; None is stored as the text "None".
SE_BuildMessage ==
    /\ pc = "se_build"
    /\ \E e \in Environments :
        /\ env' = e
        /\ IF e = "malformed"
           THEN /\ fail_point' = "headers"
                /\ pc' = "crashed" /\ crash_site' = "send_email"
           ELSE /\ pc' = "se_attach"
                /\ UNCHANGED <<fail_point, crash_site>>
    /\ UNCHANGED <<clockVars, source, feed, camera_holders, guiVars, mdVars, cfd_started,
                   cfdVars, image_path, attached, histVars>>

\* Lines 115-119, outside any try: attach the file when it exists.  A guessed
\* type of None makes split raise; open or read can raise OSError.
SE_Attach ==
    /\ pc = "se_attach"
    /\ IF image_path \in disk
       THEN IF guess_type(image_path) = "None"
            THEN /\ fail_point' = "guess_type"
                 /\ pc' = "crashed" /\ crash_site' = "send_email"
                 /\ UNCHANGED attached
            ELSE \E unreadable \in BOOLEAN :
                    IF unreadable
                    THEN /\ fail_point' = "read_file"
                         /\ pc' = "crashed" /\ crash_site' = "send_email"
                         /\ UNCHANGED attached
                    ELSE /\ attached' = TRUE
                         /\ pc' = "se_smtp"
                         /\ UNCHANGED <<fail_point, crash_site>>
       ELSE /\ pc' = "se_smtp"
            /\ UNCHANGED <<attached, fail_point, crash_site>>
    /\ UNCHANGED <<clockVars, source, feed, camera_holders, guiVars, mdVars, cfd_started,
                   cfdVars, image_path, env, histVars>>

\* How the SMTP session of lines 123-127 can end; without credentials login
\* cannot succeed.
SmtpOutcomes ==
    IF env = "valid" THEN {"sent", "connect", "starttls", "login", "send_message"}
    ELSE {"connect", "starttls", "login"}

\* Lines 122-130: whatever the session raises is caught and printed, so every
\* outcome ends the same way: send_email returns (its locals are gone) and
\* the for loop of line 75 goes on to the next box.
SE_Transmit ==
    /\ pc = "se_smtp"
    /\ \E outcome \in SmtpOutcomes : pc' = "cfd_for"
    /\ box_i' = box_i + 1
    /\ image_path' = NoFile /\ attached' = FALSE
    /\ UNCHANGED <<clockVars, source, feed, camera_holders, guiVars, mdVars, cfd_started,
                   n_faces, image_filename, iter_saved, iter_calls, env, fail_point,
                   histVars, crash_site>>

\* ------------------------------------------------------------ specification
Next ==
    \/ Tick \/ Midnight \/ PressKey
    \/ MD_Open \/ MD_ReadInitial \/ MD_ReadInitialFails
    \/ MD_ReadFrame \/ MD_ReadFrameFails \/ MD_Diff \/ MD_ReturnTrue
    \/ MD_WaitKey \/ MD_ReturnFalse
    \/ Guard_Lower \/ Guard_Upper
    \/ CFD_Open \/ CFD_CheckWindow \/ CFD_ReadDetect \/ CFD_ReadFails
    \/ CFD_NextBox \/ CFD_Imwrite \/ CFD_CallNotifier \/ CFD_WaitKey \/ CFD_Release
    \/ SE_BuildMessage \/ SE_Attach \/ SE_Transmit

\* The whole script against the live camera and the running clock.
Spec == Init /\ [][Next]_vars

\* movement_detected alone, with the clock and the operator.
NextGate ==
    \/ Tick \/ Midnight \/ PressKey
    \/ MD_Open \/ MD_ReadInitial \/ MD_ReadInitialFails
    \/ MD_ReadFrame \/ MD_ReadFrameFails \/ MD_Diff \/ MD_ReturnTrue
    \/ MD_WaitKey \/ MD_ReturnFalse

SpecGate == Init /\ [][NextGate]_vars

\* ------------------------------------------------- the recorded-frames run
\* Index of the recorded frame that differs from its predecessor; frame 0 is
\* the one line 17 reads.
MotionFrame == 10

\* Pixels whose smoothed grayscale value differs between two frames by more
\* than 25.
ChangedPixels(f, g) ==
    LET p == Preprocess(f)
        q == Preprocess(g)
    IN  SumSizes({r \in Regions : Abs(p[r] - q[r]) > 25})

\* Frames 0 .. MotionFrame: a and a2 alternate before the last one, b.
Recording(a, a2, b) ==
    [i \in 1 .. MotionFrame + 1 |->
        IF i = MotionFrame + 1 THEN b ELSE IF i % 2 = 1 THEN a ELSE a2]

\* The recordings in which only the last frame differs from its predecessor
\* in more than 5000 pixels.
Recordings ==
    {Recording(a, a2, b) : <<a, a2, b>> \in
        {t \in Frames \X Frames \X Frames :
            LET rec == Recording(t[1], t[2], t[3]) IN
            /\ \A i \in 1 .. MotionFrame - 1 : ChangedPixels(rec[i], rec[i + 1]) <= 5000
            /\ ChangedPixels(rec[MotionFrame], rec[MotionFrame + 1]) > 5000}}

\* The script run on a recording, with the clock held at 09:05:00.
InitE2E ==
    /\ InitCommon
    /\ source = "recorded" /\ feed \in Recordings
    /\ clock = (9 * 3600 + 5 * 60) * TicksPerSecond

NextE2E ==
    \/ PressKey
    \/ MD_Open \/ MD_ReadInitial \/ MD_ReadFrame \/ MD_Diff \/ MD_ReturnTrue
    \/ MD_WaitKey \/ MD_ReturnFalse
    \/ Guard_Lower \/ Guard_Upper
    \/ CFD_Open \/ CFD_CheckWindow \/ CFD_ReadDetect
    \/ CFD_NextBox \/ CFD_Imwrite \/ CFD_CallNotifier \/ CFD_WaitKey \/ CFD_Release
    \/ SE_BuildMessage \/ SE_Attach \/ SE_Transmit

SpecE2E == InitE2E /\ [][NextE2E]_vars

\* ------------------------------------------------------------ properties
GatePcs == {"md_open", "md_init", "md_read", "md_diff", "md_motion", "md_waitkey",
            "md_break"}
SendEmailPcs == {"se_build", "se_attach", "se_smtp"}
FaceLoopPcs == {"cfd_open", "cfd_check", "cfd_read", "cfd_for", "cfd_imwrite",
                "cfd_call", "cfd_waitkey", "cfd_release"} \cup SendEmailPcs

\* The detection window as times of day, in seconds: 09:00:00 - 09:15:00.
InWindow(sec) == 9 * 3600 <= sec /\ sec <= 9 * 3600 + 15 * 60

\* C1: the Notifier is never invoked at a moment when the time of day is
\* outside 09:00:00 - 09:15:00, the clock advancing after the window check.
C1_NotifierOnlyInWindow ==
    [][(pc = "cfd_call" /\ pc' = "se_build") => InWindow(SecondOf(clock))]_vars

\* C2: when the for loop of an iteration is over (or the run has ended in
\* it), every box the detector reported has had exactly one image saved
\* (one cv.imwrite) and one Notifier call, and each call receives the path of
\* the capture made for its box; with zero boxes there is none of either.
C2_OneSaveOneCallPerBox ==
    /\ (cfd_started /\ pc \in {"cfd_waitkey", "cfd_release", "done", "crashed"})
          => (iter_saved = n_faces /\ iter_calls = n_faces)
    /\ pc \in SendEmailPcs
          => (captures # <<>> /\ image_path = captures[Len(captures)].path)

\* C3: no failure inside send_email propagates to the Face Capture Loop.
C3_NotifierFailureContained == crash_site # "send_email"

\* C4: the camera is held only by the loop that is running, is released on
\* every way out of it, and never has two holders.
C4_CameraReleased ==
    /\ pc \notin GatePcs => "movement_detected" \notin camera_holders
    /\ pc \notin FaceLoopPcs => "continuous_face_detection" \notin camera_holders
    /\ Cardinality(camera_holders) <= 1

\* C5: an iteration of the Motion Gate signals motion if and only if more
\* than 5000 pixels differ from the reference by more than the binarization
\* threshold; identical frames and a count of exactly 5000 do not.
C5_MotionIffOverThreshold ==
    /\ pc = "md_motion" => (ChangedPixels(prev_frame, frame) > 5000 /\ frame # prev_frame)
    /\ pc \in {"md_waitkey", "md_break"} => ChangedPixels(prev_frame, frame) <= 5000

\* An iteration with exactly 5000 changed pixels went on without motion.
C5_Witness == pc = "md_waitkey" /\ ChangedPixels(prev_frame, frame) = 5000

\* C6 as stated, for the runs in which the detector reported a face: a full
\* run on such a recording makes exactly one capture event and exactly one
\* Notifier invocation, which references the file of that event.
C6_ExactlyOneCapture ==
    (pc = "done" /\ captures # <<>>) => (Len(captures) = 1 /\ n_calls = 1)

\* C6, amended: on such a recording with the clock at 09:05:00 the Motion
\* Gate signals motion on the last recorded frame and on no earlier one, the
\* guard passes and the Face Capture Loop starts; every capture event is
\* followed by one Notifier invocation, which receives that event's path;
\* the number of capture events is the number of boxes handled, not one.
C6_CapturesFollowBoxes ==
    /\ pc = "md_motion" => feed = <<>>
    /\ pc = "md_waitkey" => feed # <<>>
    /\ (md_result = "True" /\ pc \notin {"guard_lower", "guard_upper"}) => cfd_started
    /\ Len(captures) = IF pc = "cfd_call" THEN n_calls + 1 ELSE n_calls
    /\ pc \in SendEmailPcs
          => (captures # <<>> /\ image_path = captures[Len(captures)].path)
    /\ pc \in {"cfd_for", "cfd_waitkey"} => Len(captures) >= box_i

\* A run that ended with two capture events and two Notifier invocations.
C6_Witness == pc = "done" /\ Len(captures) = 2 /\ n_calls = 2

\* C7: the Motion Gate runs once; the Face Capture Loop starts if and only if
\* the gate returned True and the time at the guard is inside 09:00:00 -
\* 09:15:00; when it does not start nothing is saved and nobody is notified.
C7_TopLevelControlFlow ==
    /\ [](/\ md_runs <= 1
          /\ cfd_started => md_result = "True"
          /\ ~cfd_started => (captures = <<>> /\ n_calls = 0 /\ disk = {}))
    /\ [][/\ (pc = "guard_upper" /\ pc' = "cfd_open") => InWindow(SecondOf(clock))
          /\ (pc \in {"guard_lower", "guard_upper"} /\ pc' = "done")
                => ~InWindow(SecondOf(clock))]_vars

\* C8: at every differencing step the reference is the smoothed grayscale
\* form of the frame processed just before, and it has been rolled forward
\* on every iteration that did not signal motion, the cancelled one included.
C8_ReferenceIsPreviousFrame ==
    /\ pc \in {"md_diff", "md_motion"} => start_frame_blur = Preprocess(prev_frame)
    /\ pc \in {"md_read", "md_waitkey", "md_break"} => start_frame_blur = Preprocess(frame)

\* The operator cancelled on an iteration whose frame is not the initial one
\* in smoothed form, and the reference is that frame, not the baseline.
C8_Witness ==
    /\ pc = "md_break"
    /\ Preprocess(frame) # Preprocess(start_frame)
    /\ Preprocess(prev_frame) # Preprocess(start_frame)

\* C9 as stated: once the operator has issued the cancel signal during an
\* iteration the gate returns False, and it returns only by motion (True) or
\* by cancel (False).
C9_CancelAlwaysReturnsFalse ==
    [][/\ (pc \in GatePcs /\ key_pending = "q") => md_result' # "True"
       /\ md_result' # md_result
             => \/ md_result' = "True" /\ pc = "md_motion"
                \/ md_result' = "False" /\ pc = "md_break"]_vars

\* C9, amended: the gate returns False exactly when cv.waitKey, called at the
\* end of an iteration that did not signal motion, takes the operator's
\* cancel key; a cancel issued during an iteration that signals motion does
\* not stop the gate from returning True.  The gate returns only by motion
\* (True) or by such a cancel (False); with neither it does not return.
C9_CancelSeenByWaitKey ==
    [][/\ (pc = "md_waitkey" /\ pc' # "md_waitkey")
             => pc' = IF key_pending = "q" THEN "md_break" ELSE "md_read"
       /\ (pc = "md_break" /\ pc' # "md_break") => (md_result' = "False" /\ pc' = "done")
       /\ (pc = "md_motion" /\ pc' # "md_motion")
             => (md_result' = "True" /\ pc' = "guard_lower")
       /\ (pc = "md_diff" /\ pc' # "md_diff" /\ ChangedPixels(prev_frame, frame) > 5000)
             => pc' = "md_motion"
       /\ md_result' # md_result
             => /\ md_result = "none"
                /\ \/ md_result' = "True" /\ pc = "md_motion"
                   \/ md_result' = "False" /\ pc = "md_break"
       /\ (pc' = "md_break" /\ pc # "md_break") => (pc = "md_waitkey" /\ key_pending = "q")
       /\ (pc' = "md_motion" /\ pc # "md_motion")
             => (pc = "md_diff" /\ ChangedPixels(prev_frame, frame) > 5000)]_vars

\* The gate has returned False.
C9_Witness == md_result = "False" /\ pc = "done"

\* C10: two capture events never write the same file path.
C10_CaptureFilesUnique ==
    \A i, j \in DOMAIN captures :
        (i # j /\ captures[i].saved /\ captures[j].saved)
            => captures[i].path # captures[j].path

====
